---- MODULE Spec2Model ----
(***************************************************************************)
(* Citation-annotated content engine of the report UI                      *)
(* (src/ui/frontend/public/app.js, second script, lines 231-646).          *)
(*                                                                         *)
(* Text is a sequence of one-character strings.  The marker parser, the    *)
(* markdown renderer and the DOM's view of the citation spans all work on  *)
(* those characters, as the regular expressions of the source do.          *)
(***************************************************************************)
EXTENDS Integers, Sequences, FiniteSets, TLC

VARIABLES
    \* ---- one run of the text pipeline of createCollapsibleSection ----
    content,            \* section.cited_text || '' handed to processCitationTags
    sectionKey,         \* key handed to processCitationTags
    processedContent,   \* const processedContent, the value processCitationTags returns
    citationMap,        \* the call's numbering table when it returns
    bodyHtml,           \* the value renderMarkdown returns
    pc,                 \* position of the run: "start", "processed", "rendered"
    secondPass,         \* renderMarkdown applied to its own output
    \* ---- one call of positionTooltipNear ----
    layout,             \* the rects and the window size the call reads
    placed,             \* the x and y the call writes to tooltip.style
    \* ---- the page ----
    sectionData,        \* let sectionData: the keys that hold a section, and the section
    dom,                \* sectionsContainer: html of the body of each section displayed
    citations,          \* the elements addCitationListeners attached listeners to
    view,               \* which of inputSection / resultsSection is displayed
    loading,            \* submitBtn.disabled, set by setLoading
    visible,            \* tooltip.classList contains 'visible'
    pinned,             \* tooltip.classList contains 'pinned'
    hideTimeout,        \* let hideTimeout: NoTimer or a timer id
    timers,             \* ids of the timeouts scheduled and neither fired nor cleared
    currentSourceId,    \* let currentSourceId
    currentSectionKey,  \* let currentSectionKey
    shown,              \* textContent of tooltipPage, tooltipTitle, tooltipContent
    tooltipStyle,       \* tooltip.style: [left, top] in px once positioned
    pointer,            \* what the mouse pointer is over
    warnings,           \* number of console.warn diagnostics written
    lastEvent,          \* the handler that ran last
    interrupted         \* that handler cleared the pending hide of a shown tooltip

pipeVars == <<content, sectionKey, processedContent, citationMap, bodyHtml, pc,
              secondPass>>

posVars == <<layout, placed>>

tooltipVars == <<visible, pinned, hideTimeout, timers, currentSourceId,
                 currentSectionKey, shown, tooltipStyle>>

pageVars == <<sectionData, dom, citations, view, loading, visible, pinned,
              hideTimeout, timers, currentSourceId, currentSectionKey, shown,
              tooltipStyle, pointer, warnings, lastEvent, interrupted>>

vars == <<content, sectionKey, processedContent, citationMap, bodyHtml, pc,
          secondPass, layout, placed,
          sectionData, dom, citations, view, loading, visible, pinned,
          hideTimeout, timers, currentSourceId, currentSectionKey, shown,
          tooltipStyle, pointer, warnings, lastEvent, interrupted>>

\* null and undefined where text is expected (no text holds this element)
NULL == <<"null">>

\* null and undefined where an object is expected
NoObject == [null |-> TRUE]

\* hideTimeout = null; timer ids are positive, so both are falsy alike
NoTimer == 0

(***************************************************************************)
(* Characters and literals of the source                                   *)
(***************************************************************************)
Digits == {"0", "1", "2", "3", "4", "5", "6", "7", "8", "9"}

DigitChar == <<"0", "1", "2", "3", "4", "5", "6", "7", "8", "9">>

\* the literal parts of /\[\[Src:(\d+)\]\]/
MarkerOpen == <<"[","[","S","r","c",":">>
MarkerClose == <<"]","]">>

\* `src_${srcNum}`
SrcPrefix == <<"s","r","c","_">>

\* the literal parts of the citation span template
SpanOpen == <<"<","s","p","a","n"," ","c","l","a","s","s","=","\"","c","i","t","a","t","i","o","n","\""," ","d","a","t","a","-","s","o","u","r","c","e","-","i","d","=","\"">>
SpanSection == <<"\""," ","d","a","t","a","-","s","e","c","t","i","o","n","=","\"">>
SpanNum == <<"\""," ","d","a","t","a","-","n","u","m","=","\"">>
SpanMid == <<"\"",">">>
SpanClose == <<"<","/","s","p","a","n",">">>

\* the keys of sectionOrder, as text
KeyText ==
    [k \in {"overview", "products", "leadership", "stakeholders", "metrics"} |->
        CASE k = "overview" -> <<"o","v","e","r","v","i","e","w">>
          [] k = "products" -> <<"p","r","o","d","u","c","t","s">>
          [] k = "leadership" -> <<"l","e","a","d","e","r","s","h","i","p">>
          [] k = "stakeholders" -> <<"s","t","a","k","e","h","o","l","d","e","r","s">>
          [] k = "metrics" -> <<"m","e","t","r","i","c","s">>]

sectionOrder == <<"overview", "products", "leadership", "stakeholders", "metrics">>

(***************************************************************************)
(* String helpers                                                          *)
(***************************************************************************)
\* s.startsWith(lit, i - 1): lit occurs in s at position i
StartsAt(s, i, lit) ==
    /\ i >= 1
    /\ i + Len(lit) - 1 <= Len(s)
    /\ \A j \in 1..Len(lit) : s[i + j - 1] = lit[j]

MinOf(S) == CHOOSE x \in S : \A y \in S : x <= y

MaxOf(S) == CHOOSE x \in S : \A y \in S : x >= y

\* s.indexOf(lit, i - 1) + 1: first position >= i where lit occurs, or 0
FindFrom(s, i, lit) ==
    LET P == {p \in i..(Len(s) - Len(lit) + 1) : StartsAt(s, p, lit)} IN
    IF P = {} THEN 0 ELSE MinOf(P)

\* first position >= i of character ch in s, or 0
IndexOfFrom(s, i, ch) == FindFrom(s, i, <<ch>>)

\* last position in lo..hi where lit starts, or 0
FindLast(s, lo, hi, lit) ==
    LET P == {p \in lo..hi : StartsAt(s, p, lit)} IN
    IF P = {} THEN 0 ELSE MaxOf(P)

\* String(n) for n >= 0
RECURSIVE NumText(_)
NumText(n) ==
    IF n < 10 THEN <<DigitChar[n + 1]>>
    ELSE NumText(n \div 10) \o <<DigitChar[(n % 10) + 1]>>

\* length of the longest run of \d starting at position i
RECURSIVE DigitRun(_, _)
DigitRun(s, i) ==
    IF i <= Len(s) /\ s[i] \in Digits THEN 1 + DigitRun(s, i + 1) ELSE 0

(***************************************************************************)
(* processCitationTags                                                     *)
(***************************************************************************)
\* Variant: the expression written /\[\[Src:(\d*)\]\]/, which accepts a
\* marker without digits.
MarkerMatchEnd_noDigits(s, i) ==
    IF ~StartsAt(s, i, MarkerOpen) THEN 0
    ELSE LET d == DigitRun(s, i + Len(MarkerOpen))
             c == i + Len(MarkerOpen) + d
         IN  IF StartsAt(s, c, MarkerClose)
             THEN c + Len(MarkerClose) - 1
             ELSE 0

\* /\[\[Src:(\d+)\]\]/ tried at position i: the position of the last character
\* of the match, or 0 when the expression does not match there.
MarkerMatchEnd(s, i) ==
    IF ~StartsAt(s, i, MarkerOpen) THEN 0
    ELSE LET d == DigitRun(s, i + Len(MarkerOpen))
             c == i + Len(MarkerOpen) + d
         IN  IF d >= 1 /\ StartsAt(s, c, MarkerClose)
             THEN c + Len(MarkerClose) - 1
             ELSE 0

\* Variant: the table is never consulted, every marker takes a new number.
IsUnseen_always(map, sourceId) == TRUE

\* if (!citationMap[sourceId]): the table holds no number for sourceId yet
\* (the numbers it holds are >= 1, so a stored number is never falsy)
IsUnseen(map, sourceId) == sourceId \notin DOMAIN map

\* Variant: the number displayed is the last digit of the source's own id.
DisplayNum_ownNumber(map, sourceId) ==
    CHOOSE n \in 0..9 : DigitChar[n + 1] = sourceId[Len(sourceId)]

\* const displayNum = citationMap[sourceId]
DisplayNum(map, sourceId) == map[sourceId]

\* Variant: the template literal ends with a blank after the span.
CitationSpan_padded(sourceId, key, displayNum) ==
    SpanOpen \o sourceId \o SpanSection \o KeyText[key] \o SpanNum
        \o NumText(displayNum) \o SpanMid \o NumText(displayNum) \o SpanClose \o <<" ">>

\* the template literal returned by the replace callback
CitationSpan(sourceId, key, displayNum) ==
    SpanOpen \o sourceId \o SpanSection \o KeyText[key] \o SpanNum
        \o NumText(displayNum) \o SpanMid \o NumText(displayNum) \o SpanClose

\* the leftmost position >= i where the expression matches, or 0
NextMarker(s, i) ==
    LET P == {p \in i..Len(s) : MarkerMatchEnd(s, p) # 0} IN
    IF P = {} THEN 0 ELSE MinOf(P)

\* content.replace(/\[\[Src:(\d+)\]\]/g, callback): the scan from position i
\* on, with the callback's closure state (citationNumber, citationMap) and the
\* output built so far.
RECURSIVE ReplaceMarkers(_, _, _, _, _, _)
ReplaceMarkers(s, key, i, citationNumber, map, out) ==
    LET p == NextMarker(s, i) IN
    IF p = 0
    THEN [out |-> out \o SubSeq(s, i, Len(s)), citationMap |-> map,
          citationNumber |-> citationNumber]
    ELSE LET e == MarkerMatchEnd(s, p)
             srcNum == SubSeq(s, p + Len(MarkerOpen), e - Len(MarkerClose))
             sourceId == SrcPrefix \o srcNum
             isNew == IsUnseen(map, sourceId)
             map2 == IF isNew
                     THEN [x \in DOMAIN map \cup {sourceId} |->
                              IF x = sourceId THEN citationNumber ELSE map[x]]
                     ELSE map
             number2 == IF isNew THEN citationNumber + 1 ELSE citationNumber
             displayNum == DisplayNum(map2, sourceId)
         IN  ReplaceMarkers(s, key, e + 1, number2, map2,
                            out \o SubSeq(s, i, p - 1)
                                \o CitationSpan(sourceId, key, displayNum))

EmptyMap == [x \in {} |-> 0]

\* Variant: the counter lives outside the function and goes on from the
\* citations already in the document.
FirstCitationNumber_continued ==
    1 + Cardinality(UNION {{k} \X (1..Len(citations[k])) : k \in DOMAIN citations})

\* let citationNumber = 1; const citationMap = {};
FirstCitationNumber == 1

processCitationRun(text, sources, key) ==
    ReplaceMarkers(text, key, 1, FirstCitationNumber, EmptyMap, <<>>)

processCitationTags(text, sources, key) ==
    processCitationRun(text, sources, key).out

(***************************************************************************)
(* The DOM's view of a rendered string: the elements selected by           *)
(* document.querySelectorAll('.citation') and their dataset                *)
(***************************************************************************)
NoElement == [at |-> 0, next |-> 0]

\* the citation span whose start tag begins at position i, read the way the
\* HTML parser reads it: attribute values run to the closing quote, the text
\* content to the next tag.  `at` is 0 when no citation span starts at i.
ElementAt(s, i) ==
    IF ~StartsAt(s, i, SpanOpen) THEN NoElement
    ELSE LET a1 == i + Len(SpanOpen)
             q1 == IndexOfFrom(s, a1, "\"")
         IN  IF q1 = 0 \/ ~StartsAt(s, q1, SpanSection) THEN NoElement
             ELSE LET a2 == q1 + Len(SpanSection)
                      q2 == IndexOfFrom(s, a2, "\"")
                  IN  IF q2 = 0 \/ ~StartsAt(s, q2, SpanNum) THEN NoElement
                      ELSE LET a3 == q2 + Len(SpanNum)
                               q3 == IndexOfFrom(s, a3, "\"")
                           IN  IF q3 = 0 \/ ~StartsAt(s, q3, SpanMid) THEN NoElement
                               ELSE LET a4 == q3 + Len(SpanMid)
                                        q4 == IndexOfFrom(s, a4, "<")
                                    IN  IF q4 = 0 \/ ~StartsAt(s, q4, SpanClose)
                                        THEN NoElement
                                        ELSE [at |-> i,
                                              next |-> q4 + Len(SpanClose),
                                              sourceId |-> SubSeq(s, a1, q1 - 1),
                                              section |-> SubSeq(s, a2, q2 - 1),
                                              num |-> SubSeq(s, a3, q3 - 1),
                                              label |-> SubSeq(s, a4, q4 - 1)]

\* the citation elements of s from position i on, in document order, each
\* with its dataset (sourceId, section, num), its text and its markup
RECURSIVE ElementsFrom(_, _)
ElementsFrom(s, i) ==
    LET p == FindFrom(s, i, SpanOpen) IN
    IF p = 0 THEN <<>>
    ELSE LET el == ElementAt(s, p) IN
         IF el.at = 0 THEN ElementsFrom(s, p + 1)
         ELSE <<[sourceId |-> el.sourceId, section |-> el.section,
                 num |-> el.num, label |-> el.label,
                 outerHTML |-> SubSeq(s, el.at, el.next - 1)]>>
                \o ElementsFrom(s, el.next)

CitationElements(s) == ElementsFrom(s, 1)

(***************************************************************************)
(* renderMarkdown                                                          *)
(***************************************************************************)
NL == "\n"

\* s.split(sep) from position i on
RECURSIVE SplitFrom(_, _, _)
SplitFrom(s, i, sep) ==
    LET p == FindFrom(s, i, sep) IN
    IF p = 0 THEN <<SubSeq(s, i, Len(s))>>
    ELSE <<SubSeq(s, i, p - 1)>> \o SplitFrom(s, p + Len(sep), sep)

Split(s, sep) == SplitFrom(s, 1, sep)

\* parts.join(sep)
RECURSIVE Join(_, _)
Join(parts, sep) ==
    IF Len(parts) = 0 THEN <<>>
    ELSE IF Len(parts) = 1 THEN parts[1]
    ELSE parts[1] \o sep \o Join(Tail(parts), sep)

\* the white space String.prototype.trim removes
WhiteSpace == {" ", NL, "\t"}

RECURSIVE TrimStart(_)
TrimStart(s) ==
    IF Len(s) > 0 /\ s[1] \in WhiteSpace THEN TrimStart(Tail(s)) ELSE s

RECURSIVE TrimEnd(_)
TrimEnd(s) ==
    IF Len(s) > 0 /\ s[Len(s)] \in WhiteSpace THEN TrimEnd(SubSeq(s, 1, Len(s) - 1)) ELSE s

Trim(s) == TrimEnd(TrimStart(s))

\* a replace with a /^...$/gm expression rewrites whole lines: `.` does not
\* match a line terminator, ^ and $ match at the line's ends
Lines(s) == Split(s, <<NL>>)

\* /^<marks>(.+)$/gm -> open $1 close, on one line
PrefixedLine(line, marks, open, close) ==
    IF StartsAt(line, 1, marks) /\ Len(line) > Len(marks)
    THEN open \o SubSeq(line, Len(marks) + 1, Len(line)) \o close
    ELSE line

Open_h1 == <<"<","h","1",">">>
Close_h1 == <<"<","/","h","1",">">>
Open_h2 == <<"<","h","2",">">>
Close_h2 == <<"<","/","h","2",">">>
Open_h3 == <<"<","h","3",">">>
Close_h3 == <<"<","/","h","3",">">>
Open_strong == <<"<","s","t","r","o","n","g",">">>
Close_strong == <<"<","/","s","t","r","o","n","g",">">>
Open_em == <<"<","e","m",">">>
Close_em == <<"<","/","e","m",">">>
Open_li == <<"<","l","i",">">>
Close_li == <<"<","/","l","i",">">>
Open_ul == <<"<","u","l",">">>
Close_ul == <<"<","/","u","l",">">>
Open_p == <<"<","p",">">>
Close_p == <<"<","/","p",">">>
Open_tr == <<"<","t","r",">">>
Close_tr == <<"<","/","t","r",">">>
Open_th == <<"<","t","h",">">>
Close_th == <<"<","/","t","h",">">>
Open_td == <<"<","t","d",">">>
Close_td == <<"<","/","t","d",">">>
TableHead == <<"<","t","a","b","l","e",">","<","t","h","e","a","d",">","<","t","r",">">>
TableMid == <<"<","/","t","r",">","<","/","t","h","e","a","d",">","<","t","b","o","d","y",">">>
TableEnd == <<"<","/","t","b","o","d","y",">","<","/","t","a","b","l","e",">">>
PrefixH == <<"<","h">>
PrefixUl == <<"<","u","l">>
PrefixOl == <<"<","o","l">>
PrefixLi == <<"<","l","i">>
PrefixTable == <<"<","t","a","b","l","e">>

\* Headers: /^### (.+)$/gm, then /^## (.+)$/gm, then /^# (.+)$/gm
Headers(s) ==
    LET h3 == [n \in DOMAIN Lines(s) |->
                  PrefixedLine(Lines(s)[n], <<"#","#","#"," ">>, Open_h3, Close_h3)]
        h2 == [n \in DOMAIN h3 |->
                  PrefixedLine(h3[n], <<"#","#"," ">>, Open_h2, Close_h2)]
        h1 == [n \in DOMAIN h2 |->
                  PrefixedLine(h2[n], <<"#"," ">>, Open_h1, Close_h1)]
    IN  Join(h1, <<NL>>)

\* the end of (.+?) for an emphasis whose text starts at position j - 1: the
\* first position >= j where mark occurs, provided no line terminator lies
\* between; 0 otherwise
EmphasisClose(s, j, mark) ==
    LET q == FindFrom(s, j, mark) IN
    IF q = 0 \/ \E k \in (j - 1)..(q - 1) : s[k] = NL THEN 0 ELSE q

\* s.replace(/mark(.+?)mark/g, open $1 close) from position i on
RECURSIVE Emphasis(_, _, _, _, _)
Emphasis(s, i, mark, open, close) ==
    LET p == FindFrom(s, i, mark) IN
    IF p = 0 THEN SubSeq(s, i, Len(s))
    ELSE LET q == EmphasisClose(s, p + Len(mark) + 1, mark) IN
         IF q = 0
         THEN SubSeq(s, i, p) \o Emphasis(s, p + 1, mark, open, close)
         ELSE SubSeq(s, i, p - 1) \o open \o SubSeq(s, p + Len(mark), q - 1) \o close
                \o Emphasis(s, q + Len(mark), mark, open, close)

\* Bold: /\*\*(.+?)\*\*/g
Bold(s) == Emphasis(s, 1, <<"*","*">>, Open_strong, Close_strong)

\* Variant: italic also written with underscores, /_(.+?)_/g.
Italic_underscore(s) ==
    Emphasis(Emphasis(s, 1, <<"*">>, Open_em, Close_em), 1, <<"_">>, Open_em, Close_em)

\* Italic: /\*(.+?)\*/g
Italic(s) == Emphasis(s, 1, <<"*">>, Open_em, Close_em)

\* Lists (bullet): /^\* (.+)$/gm
BulletItems(s) ==
    Join([n \in DOMAIN Lines(s) |->
             PrefixedLine(Lines(s)[n], <<"*"," ">>, Open_li, Close_li)], <<NL>>)

\* position of the line terminator ending the line that holds position i, or
\* Len(s) + 1 on the last line
LineEnd(s, i) ==
    LET e == IndexOfFrom(s, i, NL) IN IF e = 0 THEN Len(s) + 1 ELSE e

\* (<li>.*<\/li>\n?)+ tried at position p: the position after the match, or 0.
\* Each round takes a greedy .* to the last </li> of its line and a line
\* terminator when one follows.
RECURSIVE ListRunEnd(_, _)
ListRunEnd(s, p) ==
    IF ~StartsAt(s, p, Open_li) THEN 0
    ELSE LET q == FindLast(s, p + Len(Open_li),
                           LineEnd(s, p) - Len(Close_li), Close_li)
         IN  IF q = 0 THEN 0
             ELSE LET e0 == q + Len(Close_li)
                      e == IF e0 <= Len(s) /\ s[e0] = NL THEN e0 + 1 ELSE e0
                      more == ListRunEnd(s, e)
                  IN  IF more = 0 THEN e ELSE more

\* s.replace(/(<li>.*<\/li>\n?)+/g, '<ul>$&</ul>') from position i on
RECURSIVE WrapLists(_, _)
WrapLists(s, i) ==
    LET p == FindFrom(s, i, Open_li) IN
    IF p = 0 THEN SubSeq(s, i, Len(s))
    ELSE LET e == ListRunEnd(s, p) IN
         IF e = 0 THEN SubSeq(s, i, p) \o WrapLists(s, p + 1)
         ELSE SubSeq(s, i, p - 1) \o Open_ul \o SubSeq(s, p, e - 1) \o Close_ul
                \o WrapLists(s, e)

\* Lists (numbered): /^\d+\. (.+)$/gm
NumberedLine(line) ==
    LET d == DigitRun(line, 1) IN
    IF d >= 1 /\ StartsAt(line, d + 1, <<"."," ">>) /\ Len(line) > d + 2
    THEN Open_li \o SubSeq(line, d + 3, Len(line)) \o Close_li
    ELSE line

NumberedItems(s) ==
    Join([n \in DOMAIN Lines(s) |-> NumberedLine(Lines(s)[n])], <<NL>>)

\* the characters of the separator row: [-: |]
SeparatorChars == {"-", ":", " ", "|"}

\* (?:\|.+\|\n?)+ tried at position r: the position after the match, or 0
RECURSIVE TableRowsEnd(_, _)
TableRowsEnd(s, r) ==
    IF ~(r <= Len(s) /\ s[r] = "|") THEN 0
    ELSE LET q == FindLast(s, r + 2, LineEnd(s, r) - 1, <<"|">>) IN
         IF q = 0 THEN 0
         ELSE LET e0 == q + 1
                  e == IF e0 <= Len(s) /\ s[e0] = NL THEN e0 + 1 ELSE e0
                  more == TableRowsEnd(s, e)
              IN  IF more = 0 THEN e ELSE more

NoTable == [end |-> 0]

\* tableRegex tried at position i: the two groups and the position after the
\* match; end is 0 when the expression does not match there
TableMatch(s, i) ==
    IF ~(i <= Len(s) /\ s[i] = "|") THEN NoTable
    ELSE LET e1 == IndexOfFrom(s, i, NL) IN
         \* \|(.+)\|\n
         IF e1 = 0 \/ e1 - 1 < i + 2 \/ s[e1 - 1] # "|" THEN NoTable
         ELSE LET e2 == IndexOfFrom(s, e1 + 1, NL) IN
              \* \|[-: |]+\|\n
              IF \/ e2 = 0
                 \/ e2 - (e1 + 1) < 3
                 \/ s[e1 + 1] # "|"
                 \/ s[e2 - 1] # "|"
                 \/ \E k \in (e1 + 1)..(e2 - 1) : s[k] \notin SeparatorChars
              THEN NoTable
              ELSE LET e3 == TableRowsEnd(s, e2 + 1) IN
                   IF e3 = 0 THEN NoTable
                   ELSE [end |-> e3,
                         headerRow |-> SubSeq(s, i + 1, e1 - 2),
                         bodyRows |-> SubSeq(s, e2 + 1, e3 - 1)]

\* row.split('|').filter(c => c.trim())
Cells(row) == SelectSeq(Split(row, <<"|">>), LAMBDA c : Trim(c) # <<>>)

\* cells.forEach(c => table += open c.trim() close)
RECURSIVE CellsHtml(_, _, _)
CellsHtml(cells, open, close) ==
    IF Len(cells) = 0 THEN <<>>
    ELSE open \o Trim(cells[1]) \o close \o CellsHtml(Tail(cells), open, close)

RECURSIVE RowsHtml(_)
RowsHtml(rows) ==
    IF Len(rows) = 0 THEN <<>>
    ELSE Open_tr \o CellsHtml(Cells(rows[1]), Open_td, Close_td) \o Close_tr
           \o RowsHtml(Tail(rows))

\* the replace callback of the table rule
TableHtml(headerRow, bodyRows) ==
    TableHead \o CellsHtml(Cells(headerRow), Open_th, Close_th) \o TableMid
        \o RowsHtml(Split(Trim(bodyRows), <<NL>>)) \o TableEnd

\* html.replace(tableRegex, callback) from position i on
RECURSIVE Tables(_, _)
Tables(s, i) ==
    LET p == IndexOfFrom(s, i, "|") IN
    IF p = 0 THEN SubSeq(s, i, Len(s))
    ELSE LET m == TableMatch(s, p) IN
         IF m.end = 0 THEN SubSeq(s, i, p) \o Tables(s, p + 1)
         ELSE SubSeq(s, i, p - 1) \o TableHtml(m.headerRow, m.bodyRows)
                \o Tables(s, m.end)

\* Variant: the callback without `if (!p) return ''`.
Paragraph_noEmptyCheck(chunk) ==
    LET p == Trim(chunk) IN
    IF \/ StartsAt(p, 1, PrefixH) \/ StartsAt(p, 1, PrefixUl)
       \/ StartsAt(p, 1, PrefixOl) \/ StartsAt(p, 1, PrefixLi)
       \/ StartsAt(p, 1, PrefixTable)
    THEN p
    ELSE Open_p \o p \o Close_p

\* the callback of the paragraph map
Paragraph(chunk) ==
    LET p == Trim(chunk) IN
    IF p = <<>> THEN <<>>
    ELSE IF \/ StartsAt(p, 1, PrefixH) \/ StartsAt(p, 1, PrefixUl)
            \/ StartsAt(p, 1, PrefixOl) \/ StartsAt(p, 1, PrefixLi)
            \/ StartsAt(p, 1, PrefixTable)
    THEN p
    ELSE Open_p \o p \o Close_p

\* html.split('\n\n').map(...).join('\n')
Paragraphs(s) ==
    LET chunks == Split(s, <<NL, NL>>) IN
    Join([n \in DOMAIN chunks |-> Paragraph(chunks[n])], <<NL>>)

renderMarkdown(text) ==
    Paragraphs(Tables(NumberedItems(WrapLists(BulletItems(Italic(Bold(Headers(text)))), 1)), 1))

(***************************************************************************)
(* Tooltip functions                                                       *)
(***************************************************************************)
SectionKeys == {sectionOrder[n] : n \in DOMAIN sectionOrder}

\* the values `x || fallback` replaces
Falsy == {NULL, <<>>}

OrElse(x, fallback) == IF x \in Falsy THEN fallback ELSE x

\* Variant: the source is looked up in every section, in the order of
\* sectionOrder, and the first record found is taken.
LookupSource_anySection(data, keyText, sourceId) ==
    LET ns == {n \in DOMAIN sectionOrder :
                  /\ sectionOrder[n] \in DOMAIN data
                  /\ "sources" \in DOMAIN data[sectionOrder[n]]
                  /\ sourceId \in DOMAIN data[sectionOrder[n]].sources}
    IN  IF ns = {} THEN NoObject
        ELSE data[sectionOrder[MinOf(ns)]].sources[sourceId]

\* section?.sources?.[sourceId] for section = sectionData[sectionKey]; the
\* dataset holds text, sectionData is keyed by the section keys
LookupSource(data, keyText, sourceId) ==
    LET ks == {k \in DOMAIN data : KeyText[k] = keyText} IN
    IF ks = {} THEN NoObject
    ELSE LET section == data[CHOOSE k \in ks : TRUE] IN
         IF "sources" \notin DOMAIN section THEN NoObject
         ELSE IF sourceId \notin DOMAIN section.sources THEN NoObject
         ELSE section.sources[sourceId]

\* what showTooltip writes into tooltipPage, tooltipTitle and tooltipContent
SourceDisplay(source) ==
    [page |-> OrElse(source.page_number, <<"S","o","u","r","c","e">>),
     title |-> OrElse(source.title, <<"A","n","n","u","a","l"," ","R","e","p","o","r","t">>),
     text |-> OrElse(source.raw_text, <<"N","o"," ","p","r","e","v","i","e","w"," ","a","v","a","i","l","a","b","l","e">>)]

\* const padding = 12
padding == 12

\* Variant: no clamp, the computed value is written as it is.
MaxOf2_second(a, b) == b

MaxOf2(a, b) == IF a >= b THEN a ELSE b

\* Variant: the flip aligns the tooltip with the right edge of the anchor.
positionTooltipNear_flipToRight(rect, tooltipRect, innerWidth, innerHeight) ==
    LET x0 == rect.right + padding
        y0 == rect.top
        x1 == IF x0 + tooltipRect.width > innerWidth - padding
              THEN rect.right - tooltipRect.width - padding
              ELSE x0
        y1 == IF y0 + tooltipRect.height > innerHeight - padding
              THEN innerHeight - tooltipRect.height - padding
              ELSE y0
    IN  [x |-> MaxOf2(padding, x1), y |-> MaxOf2(padding, y1)]

\* Variant: without the rule that prevents the overflow at the bottom.
positionTooltipNear_noBottomRule(rect, tooltipRect, innerWidth, innerHeight) ==
    LET x0 == rect.right + padding
        y0 == rect.top
        x1 == IF x0 + tooltipRect.width > innerWidth - padding
              THEN rect.left - tooltipRect.width - padding
              ELSE x0
    IN  [x |-> MaxOf2(padding, x1), y |-> MaxOf2(padding, y0)]

\* positionTooltipNear: the x and y written to tooltip.style.left / top for an
\* anchor rect, the measured tooltipRect and the window's inner size
positionTooltipNear(rect, tooltipRect, innerWidth, innerHeight) ==
    LET x0 == rect.right + padding
        y0 == rect.top
        x1 == IF x0 + tooltipRect.width > innerWidth - padding
              THEN rect.left - tooltipRect.width - padding
              ELSE x0
        y1 == IF y0 + tooltipRect.height > innerHeight - padding
              THEN innerHeight - tooltipRect.height - padding
              ELSE y0
    IN  [x |-> MaxOf2(padding, x1), y |-> MaxOf2(padding, y1)]

\* what the pointer is over when it is over no citation
OverPage == <<"page", 0>>
OverTooltip == <<"tooltip", 0>>

\* setTimeout returns an id no live timer and no stored handle carries
FreshTimerId == MinOf((1..(Cardinality(timers) + 2)) \ (timers \cup {hideTimeout}))

\* ids FreshTimerId can return while at most MaxTimers timers are live
MaxTimers == 3

TimerIds == 1..(MaxTimers + 1)

\* Variant: the handle is dropped without clearTimeout.
cancelHideTimer_handleOnly ==
    /\ timers' = timers
    /\ hideTimeout' = NoTimer
    /\ interrupted' = FALSE

\* cancelHideTimer(): clearTimeout(hideTimeout); hideTimeout = null
cancelHideTimer ==
    /\ timers' = IF hideTimeout # NoTimer THEN timers \ {hideTimeout} ELSE timers
    /\ hideTimeout' = NoTimer
    /\ interrupted' = (visible /\ hideTimeout \in timers)

\* Variant: the pinned test inverted, no hide is scheduled for an unpinned
\* tooltip.
startHideTimer_onlyPinned ==
    IF ~pinned
    THEN UNCHANGED <<hideTimeout, timers>>
    ELSE /\ hideTimeout' = FreshTimerId
         /\ timers' = timers \cup {FreshTimerId}

\* Variant: no pinned test, the hide is scheduled whatever the class.
startHideTimer_ignoresPin ==
    /\ hideTimeout' = FreshTimerId
    /\ timers' = timers \cup {FreshTimerId}

\* startHideTimer(): nothing when pinned, else schedule the hide callback
startHideTimer ==
    IF pinned
    THEN UNCHANGED <<hideTimeout, timers>>
    ELSE /\ hideTimeout' = FreshTimerId
         /\ timers' = timers \cup {FreshTimerId}

\* hideTooltip()
hideTooltip ==
    /\ visible' = FALSE
    /\ pinned' = FALSE
    /\ currentSourceId' = NULL
    /\ currentSectionKey' = NULL

\* pinTooltip(e)
pinTooltip ==
    /\ cancelHideTimer
    /\ pinned' = TRUE

\* Variant: classList.add('visible') placed after the if, so that it runs for
\* an unresolved source too.
showTooltip_alwaysVisible(el, rect, tooltipRect, innerWidth, innerHeight) ==
    LET source == LookupSource(sectionData, el.section, el.sourceId)
        at == positionTooltipNear(rect, tooltipRect, innerWidth, innerHeight)
    IN  /\ cancelHideTimer
        /\ currentSourceId' = el.sourceId
        /\ currentSectionKey' = el.section
        /\ visible' = TRUE
        /\ IF source # NoObject
           THEN /\ shown' = SourceDisplay(source)
                /\ tooltipStyle' = [left |-> at.x, top |-> at.y]
                /\ UNCHANGED warnings
           ELSE /\ warnings' = warnings + 1
                /\ UNCHANGED <<shown, tooltipStyle>>

\* Variant: showTooltip without its first statement, cancelHideTimer().
showTooltip_noCancel(el, rect, tooltipRect, innerWidth, innerHeight) ==
    LET source == LookupSource(sectionData, el.section, el.sourceId)
        at == positionTooltipNear(rect, tooltipRect, innerWidth, innerHeight)
    IN  /\ UNCHANGED <<hideTimeout, timers>>
        /\ interrupted' = FALSE
        /\ currentSourceId' = el.sourceId
        /\ currentSectionKey' = el.section
        /\ IF source # NoObject
           THEN /\ shown' = SourceDisplay(source)
                /\ tooltipStyle' = [left |-> at.x, top |-> at.y]
                /\ visible' = TRUE
                /\ UNCHANGED warnings
           ELSE /\ warnings' = warnings + 1
                /\ UNCHANGED <<shown, tooltipStyle, visible>>

\* Variant: showTooltip leaves a tooltip that is already shown as it is.
showTooltip_onlyWhenHidden(el, rect, tooltipRect, innerWidth, innerHeight) ==
    LET source == LookupSource(sectionData, el.section, el.sourceId)
        at == positionTooltipNear(rect, tooltipRect, innerWidth, innerHeight)
    IN  /\ cancelHideTimer
        /\ IF visible
           THEN UNCHANGED <<currentSourceId, currentSectionKey, shown, tooltipStyle,
                            visible, warnings>>
           ELSE /\ currentSourceId' = el.sourceId
                /\ currentSectionKey' = el.section
                /\ IF source # NoObject
                   THEN /\ shown' = SourceDisplay(source)
                        /\ tooltipStyle' = [left |-> at.x, top |-> at.y]
                        /\ visible' = TRUE
                        /\ UNCHANGED warnings
                   ELSE /\ warnings' = warnings + 1
                        /\ UNCHANGED <<shown, tooltipStyle, visible>>

\* showTooltip(e) for e.target = el, whose bounding rect is rect
showTooltip(el, rect, tooltipRect, innerWidth, innerHeight) ==
    LET source == LookupSource(sectionData, el.section, el.sourceId)
        at == positionTooltipNear(rect, tooltipRect, innerWidth, innerHeight)
    IN  /\ cancelHideTimer
        /\ currentSourceId' = el.sourceId
        /\ currentSectionKey' = el.section
        /\ IF source # NoObject
           THEN /\ shown' = SourceDisplay(source)
                /\ tooltipStyle' = [left |-> at.x, top |-> at.y]
                /\ visible' = TRUE
                /\ UNCHANGED warnings
           ELSE /\ warnings' = warnings + 1
                /\ UNCHANGED <<shown, tooltipStyle, visible>>

(***************************************************************************)
(* Display functions                                                       *)
(***************************************************************************)
\* createCollapsibleSection: the innerHTML of the section body
createCollapsibleSection(key, section) ==
    renderMarkdown(processCitationTags(
        IF "cited_text" \in DOMAIN section THEN OrElse(section.cited_text, <<>>) ELSE <<>>,
        IF "sources" \in DOMAIN section THEN section.sources ELSE EmptyMap,
        key))

\* displayResults: the section bodies appended to sectionsContainer, one for
\* each key of sectionOrder that holds a section
displayResults(sections) ==
    [k \in DOMAIN sections |-> createCollapsibleSection(k, sections[k])]

\* document.querySelectorAll('.citation') over the displayed sections
addCitationListeners(container) ==
    [k \in DOMAIN container |-> CitationElements(container[k])]

(***************************************************************************)
(* Inputs                                                                  *)
(***************************************************************************)
RECURSIVE Concats(_, _)
Concats(P, n) ==
    IF n = 0 THEN {<<>>}
    ELSE LET S == Concats(P, n - 1) IN S \cup {s \o p : s \in S, p \in P}

Marker(d) == MarkerOpen \o d \o MarkerClose

MaxParsePieces == 4

ParsePieces ==
    { Marker(<<"5">>), Marker(<<"2">>), MarkerOpen, MarkerClose,
      <<"5">>, <<"a">>, <<"]">> }

ParseTexts == Concats(ParsePieces, MaxParsePieces)

MaxRenderPieces == 3

\* a table header with its separator row and the opening of a body row
TableTop == <<"|","h","|",NL,"|","-","|",NL,"|">>

RenderPieces ==
    { Marker(<<"5">>), <<"*","*">>, <<"*">>, <<"#"," ">>, <<"*"," ">>,
      <<"1","."," ">>, <<NL>>, <<"a">>, <<"|">>, TableTop }

RenderTexts == Concats(RenderPieces, MaxRenderPieces)

\* source records the backend delivers
SourceA == [title |-> <<"R","2","3">>, page_number |-> <<"3">>, raw_text |-> <<"t","e","x","t"," ","A">>]
SourceB == [title |-> NULL, page_number |-> NULL, raw_text |-> <<>>]

NoSections == [k \in {} |-> NoObject]
SourceC == [title |-> <<"R","2","2">>, page_number |-> <<"1","2">>, raw_text |-> <<"t","e","x","t"," ","C">>]

Src(d) == SrcPrefix \o d

\* two sections that cite the same source ids, each with its own records; the
\* second also cites a source that its records do not hold and those of the
\* first do
ReportOne ==
    ("overview" :>
        [cited_text |-> <<"#"," ","T",NL>> \o Marker(<<"5">>) \o <<" ","*","*","b"," ">>
                          \o Marker(<<"2">>) \o <<"*","*">> \o Marker(<<"5">>),
         sources |-> (Src(<<"5">>) :> SourceA) @@ (Src(<<"2">>) :> SourceB)
                       @@ (Src(<<"7">>) :> SourceA)])
    @@ ("products" :>
        [cited_text |-> Marker(<<"2">>) \o <<" ","a"," ">> \o Marker(<<"7">>),
         sources |-> (Src(<<"2">>) :> SourceC)])

\* one section with a single citation, and sections whose cited_text is
\* absent, empty or null
ReportTwo ==
    ("overview" :>
        [cited_text |-> <<"*"," ">> \o Marker(<<"2">>),
         sources |-> (Src(<<"2">>) :> SourceA)])
    @@ ("leadership" :> [section_name |-> <<"L">>])
    @@ ("stakeholders" :> [cited_text |-> <<>>, sources |-> (Src(<<"2">>) :> SourceA)])
    @@ ("metrics" :> [cited_text |-> NULL])

Reports == {ReportOne, ReportTwo}

\* what displayResults makes of each report
DisplayedDom == [r \in Reports |-> displayResults(r)]

DisplayedCitations == [r \in Reports |-> addCitationListeners(DisplayedDom[r])]

\* getBoundingClientRect() of a citation, the measured tooltip and the window
AnchorRects == {[left |-> 40, right |-> 52, top |-> 30],
                [left |-> 300, right |-> 312, top |-> 230]}

TooltipRect == [width |-> 120, height |-> 80]

InnerWidth == 400

InnerHeight == 300

\* text of emphasis marks and letters
MaxEmphasisPieces == 9

EmphasisTexts == Concats({ <<"*">>, <<"a">> }, MaxEmphasisPieces)

\* a table of one header cell with one body row, the row's content between
\* its outer pipes built of cells, blanks and pipes
MaxRowPieces == 4

TableTexts ==
    {TableTop \o r \o <<"|">> : r \in Concats({ <<"a">>, <<" ">>, <<"|">> }, MaxRowPieces)}

\* chunks of heading lines, bullet lines and ordinary lines
MaxBlockPieces == 5

BlockTexts == Concats({ <<"#"," ">>, <<"*"," ">>, <<"a">>, <<NL>> }, MaxBlockPieces)

\* markup-free text: letters, blanks and line breaks
MaxPlainPieces == 4

PlainPieces == { <<"a">>, <<"b">>, <<" ">>, <<NL>> }

PlainTexts == Concats(PlainPieces, MaxPlainPieces)

\* what one call of positionTooltipNear reads: the anchor's rect, the measured
\* tooltip and the window, on a grid of half the padding
PosStep == padding \div 2

MaxPos == 6

MaxSize == 3

Positions == {PosStep * g : g \in (-1)..MaxPos}

Sizes == {PosStep * g : g \in 1..MaxSize}

AnchorWidths == {PosStep, 3 * PosStep}

WindowSizes == {PosStep * g : g \in 1..MaxPos}

Layouts ==
    [left : Positions, top : Positions, anchorWidth : AnchorWidths,
     width : Sizes, height : Sizes, innerWidth : WindowSizes, innerHeight : WindowSizes]

\* element.getBoundingClientRect() in a layout
LayoutRect(l) == [left |-> l.left, right |-> l.left + l.anchorWidth, top |-> l.top]

\* tooltip.getBoundingClientRect() in a layout
LayoutTooltipRect(l) == [width |-> l.width, height |-> l.height]

\* citations of one section that the pointer may visit
MaxCitations == 3

\* console.warn calls followed
MaxWarnings == 2

(***************************************************************************)
(* Initial states                                                          *)
(***************************************************************************)
PipeIdle ==
    /\ content = <<>>
    /\ sectionKey = "overview"
    /\ processedContent = <<>>
    /\ citationMap = EmptyMap
    /\ bodyHtml = <<>>
    /\ pc = "idle"
    /\ secondPass = <<>>

PosIdle ==
    /\ layout = NoObject
    /\ placed = NoObject

PageInit ==
    /\ sectionData = NoSections
    /\ dom = NoSections
    /\ citations = NoSections
    /\ view = "input"
    /\ loading = FALSE
    /\ visible = FALSE
    /\ pinned = FALSE
    /\ hideTimeout = NoTimer
    /\ timers = {}
    /\ currentSourceId = NULL
    /\ currentSectionKey = NULL
    /\ shown = NoObject
    /\ tooltipStyle = NoObject
    /\ pointer = OverPage
    /\ warnings = 0
    /\ lastEvent = "load"
    /\ interrupted = FALSE

(***************************************************************************)
(* The text pipeline on its own: one section text through                  *)
(* processCitationTags (SpecParse) and on through renderMarkdown           *)
(* (SpecRender)                                                            *)
(***************************************************************************)
InitParse ==
    /\ content \in ParseTexts
    /\ sectionKey = "overview"
    /\ processedContent = <<>>
    /\ citationMap = EmptyMap
    /\ bodyHtml = <<>>
    /\ pc = "start"
    /\ secondPass = <<>>
    /\ PosIdle
    /\ PageInit

InitRender ==
    /\ content \in RenderTexts
    /\ sectionKey = "overview"
    /\ processedContent = <<>>
    /\ citationMap = EmptyMap
    /\ bodyHtml = <<>>
    /\ pc = "start"
    /\ secondPass = <<>>
    /\ PosIdle
    /\ PageInit

CallProcessCitationTags ==
    /\ pc = "start"
    /\ processedContent' = processCitationTags(content, EmptyMap, sectionKey)
    /\ citationMap' = processCitationRun(content, EmptyMap, sectionKey).citationMap
    /\ pc' = "processed"
    /\ UNCHANGED <<content, sectionKey, bodyHtml, secondPass>>
    /\ UNCHANGED <<pageVars, posVars>>

CallRenderMarkdown ==
    /\ pc = "processed"
    /\ bodyHtml' = renderMarkdown(processedContent)
    /\ pc' = "rendered"
    /\ UNCHANGED <<content, sectionKey, processedContent, citationMap, secondPass>>
    /\ UNCHANGED <<pageVars, posVars>>

NextParse == CallProcessCitationTags

SpecParse == InitParse /\ [][NextParse]_vars

NextRender == CallProcessCitationTags \/ CallRenderMarkdown

SpecRender == InitRender /\ [][NextRender]_vars

\* the same pipeline on emphasis, table and block texts
InitMarkdown ==
    /\ content \in EmphasisTexts \cup TableTexts \cup BlockTexts
    /\ sectionKey = "overview"
    /\ processedContent = <<>>
    /\ citationMap = EmptyMap
    /\ bodyHtml = <<>>
    /\ pc = "start"
    /\ secondPass = <<>>
    /\ PosIdle
    /\ PageInit

SpecMarkdown == InitMarkdown /\ [][NextRender]_vars

(***************************************************************************)
(* renderMarkdown applied twice to markup-free text (SpecRerender)         *)
(***************************************************************************)
InitRerender ==
    /\ content \in PlainTexts
    /\ sectionKey = "overview"
    /\ processedContent = <<>>
    /\ citationMap = EmptyMap
    /\ bodyHtml = <<>>
    /\ pc = "start"
    /\ secondPass = <<>>
    /\ PosIdle
    /\ PageInit

\* renderMarkdown handed the markup it returned
CallRenderMarkdownAgain ==
    /\ pc = "rendered"
    /\ secondPass' = renderMarkdown(bodyHtml)
    /\ pc' = "rerendered"
    /\ UNCHANGED <<content, sectionKey, processedContent, citationMap, bodyHtml>>
    /\ UNCHANGED <<pageVars, posVars>>

NextRerender == CallProcessCitationTags \/ CallRenderMarkdown \/ CallRenderMarkdownAgain

SpecRerender == InitRerender /\ [][NextRerender]_vars

(***************************************************************************)
(* positionTooltipNear on its own (SpecPosition)                           *)
(***************************************************************************)
InitPosition ==
    /\ layout \in Layouts
    /\ placed = NoObject
    /\ PipeIdle
    /\ PageInit

CallPositionTooltipNear ==
    /\ placed = NoObject
    /\ placed' = positionTooltipNear(LayoutRect(layout), LayoutTooltipRect(layout),
                                     layout.innerWidth, layout.innerHeight)
    /\ UNCHANGED layout
    /\ UNCHANGED <<pipeVars, pageVars>>

NextPosition == CallPositionTooltipNear

SpecPosition == InitPosition /\ [][NextPosition]_vars

(***************************************************************************)
(* The page: events and handlers                                           *)
(***************************************************************************)
Init == PipeIdle /\ PosIdle /\ PageInit

\* the citation elements on the page: <<key, n>> is the n-th of section key
CitationIds == {<<k, n>> : k \in SectionKeys, n \in 1..MaxCitations}

OnPage == {c \in CitationIds : c[1] \in DOMAIN citations /\ c[2] <= Len(citations[c[1]])}

Dataset(c) == citations[c[1]][c[2]]

\* the click listener of document: hide unless the target is inside the
\* tooltip or is a citation.  Here the target is neither.
ClickListenerOutside == hideTooltip

\* form submit, runAnalysis up to the await of fetch.  The click on the submit
\* button (a real one, or the one the browser fires for an implicit
\* submission) reaches the click listener of document first.
Submit ==
    /\ view = "input"
    /\ ~loading
    /\ pointer = OverPage
    /\ ClickListenerOutside
    /\ loading' = TRUE
    /\ lastEvent' = "submit"
    /\ interrupted' = FALSE
    /\ UNCHANGED <<sectionData, dom, citations, view, hideTimeout, timers, shown,
                   tooltipStyle, pointer, warnings>>
    /\ UNCHANGED <<pipeVars, posVars>>

\* runAnalysis after the response arrived: sectionData = {...};
\* displayResults(companyName, sectionData); finally setLoading(false)
RunAnalysis ==
    /\ loading
    /\ \E r \in Reports :
        /\ sectionData' = r
        /\ dom' = DisplayedDom[r]
        /\ citations' = DisplayedCitations[r]
    /\ view' = "results"
    /\ loading' = FALSE
    /\ lastEvent' = "displayResults"
    /\ interrupted' = FALSE
    /\ UNCHANGED <<tooltipVars, pointer, warnings>>
    /\ UNCHANGED <<pipeVars, posVars>>

\* runAnalysis when fetch fails or the response carries an error: alert
AnalysisFailed ==
    /\ loading
    /\ loading' = FALSE
    /\ lastEvent' = "analysisFailed"
    /\ interrupted' = FALSE
    /\ UNCHANGED <<sectionData, dom, citations, view, tooltipVars, pointer, warnings>>
    /\ UNCHANGED <<pipeVars, posVars>>

\* click on backBtn, which is neither in the tooltip nor a citation
Back ==
    /\ view = "results"
    /\ pointer = OverPage
    /\ ClickListenerOutside
    /\ view' = "input"
    /\ lastEvent' = "back"
    /\ interrupted' = FALSE
    /\ UNCHANGED <<sectionData, dom, citations, loading, hideTimeout, timers, shown,
                   tooltipStyle, pointer, warnings>>
    /\ UNCHANGED <<pipeVars, posVars>>

\* mouseenter on citation c
MouseEnterCitation(c) ==
    /\ view = "results"
    /\ pointer = OverPage
    /\ c \in OnPage
    /\ \E rect \in AnchorRects :
          showTooltip(Dataset(c), rect, TooltipRect, InnerWidth, InnerHeight)
    /\ warnings' <= MaxWarnings
    /\ pointer' = c
    /\ lastEvent' = "mouseenter"
    /\ UNCHANGED <<sectionData, dom, citations, view, loading, pinned>>
    /\ UNCHANGED <<pipeVars, posVars>>

\* mouseleave on the citation the pointer is over
MouseLeaveCitation ==
    /\ pointer \in CitationIds
    /\ startHideTimer
    /\ Cardinality(timers') <= MaxTimers
    /\ pointer' = OverPage
    /\ lastEvent' = "mouseleave"
    /\ interrupted' = FALSE
    /\ UNCHANGED <<sectionData, dom, citations, view, loading, visible, pinned,
                   currentSourceId, currentSectionKey, shown, tooltipStyle, warnings>>
    /\ UNCHANGED <<pipeVars, posVars>>

\* click on the citation the pointer is over; the click listener of document
\* does nothing for a citation
ClickCitation ==
    /\ pointer \in CitationIds
    /\ pinTooltip
    /\ lastEvent' = "click"
    /\ UNCHANGED <<sectionData, dom, citations, view, loading, visible,
                   currentSourceId, currentSectionKey, shown, tooltipStyle, pointer, warnings>>
    /\ UNCHANGED <<pipeVars, posVars>>

\* mouseenter on the tooltip, listened to since the first displayResults
TooltipMouseEnter ==
    /\ sectionData # NoSections
    /\ pointer = OverPage
    /\ cancelHideTimer
    /\ pointer' = OverTooltip
    /\ lastEvent' = "tooltipenter"
    /\ UNCHANGED <<sectionData, dom, citations, view, loading, visible, pinned,
                   currentSourceId, currentSectionKey, shown, tooltipStyle, warnings>>
    /\ UNCHANGED <<pipeVars, posVars>>

\* mouseleave on the tooltip
TooltipMouseLeave ==
    /\ pointer = OverTooltip
    /\ startHideTimer
    /\ Cardinality(timers') <= MaxTimers
    /\ pointer' = OverPage
    /\ lastEvent' = "tooltipleave"
    /\ interrupted' = FALSE
    /\ UNCHANGED <<sectionData, dom, citations, view, loading, visible, pinned,
                   currentSourceId, currentSectionKey, shown, tooltipStyle, warnings>>
    /\ UNCHANGED <<pipeVars, posVars>>

\* a click anywhere else on the page
ClickOutside ==
    /\ pointer = OverPage
    /\ ClickListenerOutside
    /\ lastEvent' = "clickoutside"
    /\ interrupted' = FALSE
    /\ UNCHANGED <<sectionData, dom, citations, view, loading, hideTimeout, timers,
                   shown, tooltipStyle, pointer, warnings>>
    /\ UNCHANGED <<pipeVars, posVars>>

\* the callback startHideTimer scheduled, 300 ms later
HideTimerFires(id) ==
    /\ id \in timers
    /\ timers' = timers \ {id}
    /\ visible' = FALSE
    /\ currentSourceId' = NULL
    /\ currentSectionKey' = NULL
    /\ lastEvent' = "timeout"
    /\ interrupted' = FALSE
    /\ UNCHANGED <<sectionData, dom, citations, view, loading, pinned, hideTimeout,
                   shown, tooltipStyle, pointer, warnings>>
    /\ UNCHANGED <<pipeVars, posVars>>

Next ==
    \/ Submit
    \/ RunAnalysis
    \/ AnalysisFailed
    \/ Back
    \/ \E c \in CitationIds : MouseEnterCitation(c)
    \/ MouseLeaveCitation
    \/ ClickCitation
    \/ TooltipMouseEnter
    \/ TooltipMouseLeave
    \/ ClickOutside
    \/ \E id \in TimerIds : HideTimerFires(id)

Spec == Init /\ [][Next]_vars

\* the event loop runs a timeout callback once its delay has passed
SpecFair == Spec /\ \A id \in TimerIds : WF_vars(HideTimerFires(id))

(***************************************************************************)
(* What the claims speak about, stated without the scan of the code         *)
(***************************************************************************)
\* text[i..j] is a well-formed marker: [[Src: then one or more digits then ]]
IsMarker(text, i, j) ==
    /\ StartsAt(text, i, MarkerOpen)
    /\ j - Len(MarkerClose) >= i + Len(MarkerOpen)
    /\ StartsAt(text, j - Len(MarkerClose) + 1, MarkerClose)
    /\ \A k \in (i + Len(MarkerOpen))..(j - Len(MarkerClose)) : text[k] \in Digits

\* positions where a well-formed marker starts
MarkerStarts(text) ==
    {i \in 1..Len(text) : \E j \in i..Len(text) : IsMarker(text, i, j)}

MarkerEnd(text, i) == CHOOSE j \in i..Len(text) : IsMarker(text, i, j)

\* positions where [[Src: starts something that is not a well-formed marker
MalformedStarts(text) ==
    {i \in 1..Len(text) : StartsAt(text, i, MarkerOpen)} \ MarkerStarts(text)

\* the n-th well-formed marker of the text, left to right
NthMarkerStart(text, n) ==
    CHOOSE i \in MarkerStarts(text) :
        Cardinality({j \in MarkerStarts(text) : j < i}) = n - 1

\* the source ids the markers of the text name, in the order of the text
MarkerIds(text) ==
    [n \in 1..Cardinality(MarkerStarts(text)) |->
        LET i == NthMarkerStart(text, n) IN
        SrcPrefix \o SubSeq(text, i + Len(MarkerOpen), MarkerEnd(text, i) - Len(MarkerClose))]

\* first-seen rank of the n-th id: how many distinct ids occur up to the first
\* occurrence of that id
FirstSeenRank(ids, n) ==
    LET first == CHOOSE k \in 1..n :
                    ids[k] = ids[n] /\ \A m \in 1..(k - 1) : ids[m] # ids[n]
    IN  Cardinality({ids[k] : k \in 1..first})

\* parseInt of a text of digits
RECURSIVE TextNum(_)
TextNum(t) ==
    IF Len(t) = 0 THEN 0
    ELSE 10 * TextNum(SubSeq(t, 1, Len(t) - 1))
         + (CHOOSE d \in 0..9 : DigitChar[d + 1] = t[Len(t)])

\* the rendered string with every citation span turned back into the marker
\* of its source id
RECURSIVE Unspan(_, _)
Unspan(s, i) ==
    LET p == FindFrom(s, i, SpanOpen) IN
    IF p = 0 THEN SubSeq(s, i, Len(s))
    ELSE LET el == ElementAt(s, p) IN
         IF el.at = 0 THEN SubSeq(s, i, p) \o Unspan(s, p + 1)
         ELSE SubSeq(s, i, p - 1) \o MarkerOpen
                \o SubSeq(el.sourceId, Len(SrcPrefix) + 1, Len(el.sourceId))
                \o MarkerClose \o Unspan(s, el.next)

(***************************************************************************)
(* Claims on processCitationTags (specification SpecParse)                 *)
(***************************************************************************)
\* C1: numbering is first-seen order.  Scanning left to right, the n-th marker
\* becomes the n-th placeholder, which carries the source id of the marker and
\* the first-seen rank of that id (next unused integer from 1 for a new id,
\* the same number again for a repeated id); the numbering table agrees.
C1_FirstSeenOrder ==
    pc = "processed" =>
        LET ids == MarkerIds(content)
            els == CitationElements(processedContent)
        IN  /\ Len(els) = Len(ids)
            /\ \A n \in 1..Len(ids) :
                  /\ els[n].sourceId = ids[n]
                  /\ els[n].num = NumText(FirstSeenRank(ids, n))
                  /\ els[n].label = els[n].num
                  /\ citationMap[ids[n]] = FirstSeenRank(ids, n)

\* C1 witness: markers Src:5, Src:2, Src:5 were parsed, the placeholders show
\* 1, 2, 1.
C1_Witness ==
    /\ pc = "processed"
    /\ content = Marker(<<"5">>) \o Marker(<<"2">>) \o Marker(<<"5">>)
    /\ LET els == CitationElements(processedContent) IN
        /\ Len(els) = 3
        /\ <<els[1].num, els[2].num, els[3].num>> = << <<"1">>, <<"2">>, <<"1">> >>
        /\ els[1].sourceId = SrcPrefix \o <<"5">>
        /\ els[2].sourceId = SrcPrefix \o <<"2">>

\* the display numbers the placeholders of a rendered string carry
DisplayNumbers(s) ==
    LET els == CitationElements(s) IN {TextNum(els[n].num) : n \in 1..Len(els)}

\* C2: the display numbers of the placeholders of one call are exactly 1..K,
\* K the number of distinct source ids matched in the text.
C2_Contiguous ==
    pc = "processed" =>
        LET ids == MarkerIds(content)
            K == Cardinality({ids[n] : n \in 1..Len(ids)})
        IN  DisplayNumbers(processedContent) = 1..K

\* C2 witness: a text with a repeated id and two distinct ids, numbers {1, 2}.
C2_Witness ==
    /\ pc = "processed"
    /\ Cardinality(MarkerStarts(content)) = 3
    /\ DisplayNumbers(processedContent) = {1, 2}

\* C4: only well-formed markers change.  Putting the markers back in place of
\* the placeholders gives the input again, there is one placeholder per
\* well-formed marker, and a text without markers comes back unchanged with an
\* empty numbering table.
C4_PassThrough ==
    pc = "processed" =>
        /\ Unspan(processedContent, 1) = content
        /\ Len(CitationElements(processedContent)) = Cardinality(MarkerStarts(content))
        /\ MarkerStarts(content) = {} =>
              /\ processedContent = content
              /\ DOMAIN citationMap = {}

\* C4 witness: a parsed text with a marker between other characters.
C4_Witness ==
    /\ pc = "processed"
    /\ content = <<"a">> \o Marker(<<"5">>) \o <<"]">> \o <<"a">>
    /\ Len(CitationElements(processedContent)) = 1

\* C5: malformed markers stay literal and take no number.  Every [[Src: that
\* does not start a well-formed marker is still in the output, the table holds
\* exactly the ids of the well-formed markers, and a text whose markers are all
\* malformed comes back unchanged.
C5_MalformedLiteral ==
    pc = "processed" =>
        LET ids == MarkerIds(content) IN
        /\ Cardinality({j \in 1..Len(processedContent) :
                            StartsAt(processedContent, j, MarkerOpen)})
              = Cardinality(MalformedStarts(content))
        /\ DOMAIN citationMap = {ids[n] : n \in 1..Len(ids)}
        /\ Len(CitationElements(processedContent)) = Len(ids)
        /\ (MarkerStarts(content) = {} /\ MalformedStarts(content) # {}) =>
              processedContent = content

\* C5 witness: a parsed text with a malformed marker (empty, non-digit or
\* unterminated content) next to a well-formed one.
C5_Witness ==
    /\ pc = "processed"
    /\ MalformedStarts(content) # {}
    /\ MarkerStarts(content) # {}
    /\ \E i \in MalformedStarts(content) : i < Len(content) - Len(MarkerOpen)

(***************************************************************************)
(* Claims on rendering (specification SpecRender)                          *)
(***************************************************************************)
\* C6: every placeholder survives renderMarkdown verbatim.  The citation
\* elements of the rendered markup are those processCitationTags produced, in
\* the same order, with the same source id, section key, display number, text
\* and markup, whatever heading, emphasis, list, table or paragraph they sit in.
C6_PlaceholdersSurvive ==
    pc = "rendered" =>
        /\ CitationElements(bodyHtml) = CitationElements(processedContent)
        /\ Len(CitationElements(bodyHtml)) = Cardinality(MarkerStarts(content))

\* C6 witness: **[[Src:5]]** was rendered, the placeholder sits in a strong
\* element and still carries src_5, overview and 1.
C6_Witness ==
    /\ pc = "rendered"
    /\ content = <<"*","*">> \o Marker(<<"5">>) \o <<"*","*">>
    /\ bodyHtml = Open_p \o Open_strong \o CitationSpan(Src(<<"5">>), "overview", 1)
                    \o Close_strong \o Close_p

(***************************************************************************)
(* Claims on the page (specifications Spec and SpecFair)                   *)
(***************************************************************************)
SectionText(section) ==
    IF "cited_text" \in DOMAIN section /\ section.cited_text # NULL
    THEN section.cited_text ELSE <<>>

\* C3: numbering is scoped to one call.  After any sequence of reports, the
\* citations of every displayed section are numbered from the section's own
\* text alone: the n-th carries the first-seen rank of its id among the
\* markers of that text, starting again at 1 in every section.
C3_ScopedNumbering ==
    \A k \in DOMAIN citations :
        LET ids == MarkerIds(SectionText(sectionData[k]))
            els == citations[k]
        IN  /\ Len(els) = Len(ids)
            /\ \A n \in 1..Len(ids) :
                  /\ els[n].sourceId = ids[n]
                  /\ els[n].num = NumText(FirstSeenRank(ids, n))

\* C3 witness: two displayed sections cite src_2; it is number 2 in the first
\* and number 1 in the second.
C3_Witness ==
    /\ {"overview", "products"} \subseteq DOMAIN citations
    /\ \E n \in 1..Len(citations["overview"]) :
          /\ citations["overview"][n].sourceId = Src(<<"2">>)
          /\ citations["overview"][n].num = <<"2">>
    /\ citations["products"][1].sourceId = Src(<<"2">>)
    /\ citations["products"][1].num = <<"1">>

\* C7: a pointerEnter on a placeholder while the popover is hidden shows the
\* popover for that placeholder's source when the source resolves in its
\* section; when it does not, the popover stays hidden and one diagnostic is
\* written.
C7_HoverFromHidden ==
    [][(pointer = OverPage /\ pointer' \in CitationIds /\ ~visible) =>
          LET el == Dataset(pointer')
              source == LookupSource(sectionData, el.section, el.sourceId)
          IN  IF source # NoObject
              THEN /\ visible'
                   /\ shown' = SourceDisplay(source)
                   /\ currentSourceId' = el.sourceId
                   /\ currentSectionKey' = el.section
                   /\ warnings' = warnings
              ELSE /\ ~visible'
                   /\ shown' = shown
                   /\ warnings' = warnings + 1]_vars

\* C7 witness: the pointer entered a placeholder whose source its section does
\* not hold; nothing is shown and a diagnostic was written.
C7_Witness ==
    /\ lastEvent = "mouseenter"
    /\ pointer \in CitationIds
    /\ LookupSource(sectionData, Dataset(pointer).section, Dataset(pointer).sourceId)
          = NoObject
    /\ ~visible
    /\ ~pinned
    /\ warnings = 1

\* C8: when the pointer leaves while the popover is shown and not pinned, then
\* unless a pointerEnter or a click comes first, the popover is eventually
\* hidden.
C8_HideAfterLeave ==
    (visible /\ ~pinned /\ lastEvent \in {"mouseleave", "tooltipleave"})
        ~> (~visible \/ lastEvent \in {"mouseenter", "tooltipenter", "click"})

\* C8 witness: the hide timer expired with the pointer away and hid the popover.
C8_Witness ==
    /\ lastEvent = "timeout"
    /\ ~visible
    /\ ~pinned
    /\ pointer = OverPage
    /\ shown # NoObject
    /\ timers = {}

\* C9: entering the popover cancels the pending hide.  While the pointer is
\* over the popover no timer is pending and the stored handle is cleared, the
\* enter itself changes neither class, and a shown popover stays shown for as
\* long as the pointer stays.
C9_EnterPopoverCancels ==
    [][/\ pointer' = OverTooltip => (timers' = {} /\ hideTimeout' = NoTimer)
       /\ (pointer = OverPage /\ pointer' = OverTooltip) =>
              (visible' = visible /\ pinned' = pinned)
       /\ (pointer = OverTooltip /\ pointer' = OverTooltip /\ visible) => visible']_vars

\* C9 witness: the pointer left a placeholder, entered the popover while the
\* hide was pending, and the popover is still shown with no timer.
C9_Witness ==
    /\ lastEvent = "tooltipenter"
    /\ visible
    /\ ~pinned
    /\ timers = {}

\* C10: a click on a placeholder while the popover is shown pins it, and a
\* pinned popover stays shown and pinned through pointerLeave, pointerEnter,
\* clicks on placeholders and timer expiry; only a click outside hides it.
C10_PinnedStays ==
    [][/\ (pointer \in CitationIds /\ lastEvent' = "click" /\ visible) =>
              (pinned' /\ visible')
       /\ (visible /\ pinned
             /\ lastEvent' \in {"mouseleave", "tooltipleave", "mouseenter",
                                "tooltipenter", "timeout", "click"}) =>
              (visible' /\ pinned')
       /\ (visible /\ pinned /\ ~(visible' /\ pinned')) =>
              lastEvent' \in {"clickoutside", "back"}]_vars

\* C10 witness: the popover was pinned by a click, the pointer then left the
\* placeholder, crossed the popover and left it; the popover is still shown.
C10_Witness ==
    /\ lastEvent = "tooltipleave"
    /\ visible
    /\ pinned
    /\ timers = {}

\* C11: a click outside the popover and the placeholders, while the popover is
\* shown (pinned or not), hides it, unpins it and leaves no hide timer pending.
C11_ClickOutsideHides ==
    [][(lastEvent' = "clickoutside" /\ visible) =>
          (~visible' /\ ~pinned' /\ timers' = {})]_vars

\* C12: in every reachable state at most one hide timer is pending, and it is
\* the one hideTimeout names, so that the next cancel reaches it.
C12_OneTimer ==
    /\ Cardinality(timers) <= 1
    /\ timers \subseteq {hideTimeout}

\* C12 witness: the pointer left a placeholder, crossed the popover and left it
\* again: the second leave scheduled a hide, and it is the only one pending.
C12_Witness ==
    /\ lastEvent = "tooltipleave"
    /\ visible
    /\ ~pinned
    /\ timers = {hideTimeout}
    /\ Cardinality(timers) = 1

(***************************************************************************)
(* Claims on positionTooltipNear (specification SpecPosition)              *)
(***************************************************************************)
\* the default placement right of the anchor overflows the right edge
OverflowsRight(l) ==
    l.left + l.anchorWidth + padding + l.width > l.innerWidth - padding

\* C13 as stated: whenever the default placement overflows the right edge, the
\* popover ends entirely left of the anchor, inside the viewport, and x is not
\* negative, for all anchors, popovers and viewports.
C13_FlipLeft ==
    (placed # NoObject /\ OverflowsRight(layout)) =>
        /\ placed.x + layout.width <= layout.left
        /\ placed.x + layout.width <= layout.innerWidth
        /\ placed.x >= 0

\* C13 amended: the same, provided the popover and the padding fit left of the
\* anchor (anchor.left >= popoverWidth + padding) and the anchor starts inside
\* the viewport (anchor.left <= viewportWidth).
C13_FlipLeftWhenRoom ==
    (/\ placed # NoObject
     /\ OverflowsRight(layout)
     /\ layout.left >= layout.width + padding
     /\ layout.left <= layout.innerWidth) =>
        /\ placed.x + layout.width <= layout.left
        /\ placed.x + layout.width <= layout.innerWidth
        /\ placed.x >= 0

\* C13 witness: the default placement overflowed, the popover was flipped to
\* the left of the anchor and needed no clamp.
C13_Witness ==
    /\ placed # NoObject
    /\ OverflowsRight(layout)
    /\ layout.left <= layout.innerWidth
    /\ placed.x = layout.left - layout.width - padding
    /\ placed.x > padding

\* C14: the coordinates positionTooltipNear writes are at least padding in
\* both axes, for all anchors, popovers and viewports.
C14_Clamped ==
    placed # NoObject => (placed.x >= padding /\ placed.y >= padding)

\* C14 witness: the flip would have given a negative x and the bottom rule a
\* negative y; both were clamped to padding.
C14_Witness ==
    /\ placed # NoObject
    /\ OverflowsRight(layout)
    /\ layout.left - layout.width - padding < 0
    /\ layout.top + layout.height > layout.innerHeight - padding
    /\ layout.innerHeight - layout.height - padding < 0
    /\ placed = [x |-> padding, y |-> padding]

OwnSources(k) ==
    IF "sources" \in DOMAIN sectionData[k] THEN sectionData[k].sources ELSE EmptyMap

\* C16: source lookup is section-scoped.  A placeholder carries the key of the
\* section it is displayed in, and a pointerEnter on it shows the record stored
\* under its source id in that section's own sources; when that section holds
\* none, nothing is shown, whatever other sections hold under the same id.
C16_SectionScoped ==
    [][(pointer = OverPage /\ pointer' \in CitationIds) =>
          LET k == pointer'[1]
              el == Dataset(pointer')
          IN  /\ el.section = KeyText[k]
              /\ IF el.sourceId \in DOMAIN OwnSources(k)
                 THEN /\ visible'
                      /\ shown' = SourceDisplay(OwnSources(k)[el.sourceId])
                      /\ currentSectionKey' = KeyText[k]
                 ELSE /\ shown' = shown
                      /\ visible' = visible]_vars

\* C16 witness: the pointer entered the placeholder of src_2 in products; the
\* popover shows the record products holds, not the one overview holds.
C16_Witness ==
    /\ lastEvent = "mouseenter"
    /\ pointer = <<"products", 1>>
    /\ Dataset(pointer).sourceId = Src(<<"2">>)
    /\ visible
    /\ shown = SourceDisplay(SourceC)
    /\ shown # SourceDisplay(sectionData["overview"].sources[Src(<<"2">>)])

\* C18: a pointerEnter on a placeholder whose source resolves, while the
\* popover is shown and a hide is pending, cancels the hide and shows the new
\* placeholder's source and section; the popover then stays shown for as long
\* as the pointer stays on the placeholder.
C18_EnterAnother ==
    [][/\ (visible /\ timers # {} /\ pointer = OverPage /\ pointer' \in CitationIds
             /\ Dataset(pointer').sourceId \in DOMAIN OwnSources(pointer'[1])) =>
              /\ timers' = {}
              /\ hideTimeout' = NoTimer
              /\ visible'
              /\ shown' = SourceDisplay(OwnSources(pointer'[1])[Dataset(pointer').sourceId])
              /\ currentSourceId' = Dataset(pointer').sourceId
              /\ currentSectionKey' = KeyText[pointer'[1]]
       /\ (pointer \in CitationIds /\ pointer' = pointer /\ visible) => visible']_vars

\* C18 witness: the popover was shown with a hide pending when the pointer
\* entered the placeholder of products; the hide was cleared and the popover
\* shows the record of products.
C18_Witness ==
    /\ lastEvent = "mouseenter"
    /\ interrupted
    /\ pointer = <<"products", 1>>
    /\ visible
    /\ ~pinned
    /\ timers = {}
    /\ shown = SourceDisplay(SourceC)
    /\ currentSectionKey = KeyText["products"]

\* C19: whenever the popover is not shown, currentSourceId and
\* currentSectionKey are both null.
C19_HiddenCleared ==
    ~visible => (currentSourceId = NULL /\ currentSectionKey = NULL)

\* C20: whenever a new report is displayed, the tooltip is hidden, not pinned,
\* has no target and no hide timer is pending.
C20_ClearedBetweenReports ==
    [][(loading /\ lastEvent' = "displayResults") =>
          /\ ~visible'
          /\ ~pinned'
          /\ currentSourceId' = NULL
          /\ currentSectionKey' = NULL
          /\ timers' = {}]_vars

(***************************************************************************)
(* Claims on rendering twice (specification SpecRerender)                  *)
(***************************************************************************)
\* positions where a paragraph element opens
ParagraphStarts(s) == {i \in 1..Len(s) : StartsAt(s, i, Open_p)}

\* C17: for markup-free text, rendering the rendered markup again gives the
\* same paragraphs, none added or nested.
C17_Idempotent ==
    pc = "rerendered" =>
        Cardinality(ParagraphStarts(secondPass)) = Cardinality(ParagraphStarts(bodyHtml))

(***************************************************************************)
(* Further claims on positionTooltipNear (specification SpecPosition)      *)
(***************************************************************************)
\* the placement at the anchor's top overflows the bottom edge
OverflowsBottom(l) == l.top + l.height > l.innerHeight

\* C21 as stated: whenever the placement at the anchor's top overflows the
\* bottom edge, the popover ends inside the viewport, y + popoverHeight <=
\* viewportHeight, for all anchors, popovers and viewports.
C21_BottomClamp ==
    (placed # NoObject /\ OverflowsBottom(layout)) =>
        placed.y + layout.height <= layout.innerHeight

\* C21 amended: the same, provided the popover and the padding fit into the
\* viewport (popoverHeight + padding <= viewportHeight).
C21_BottomClampWhenRoom ==
    (/\ placed # NoObject
     /\ OverflowsBottom(layout)
     /\ layout.height + padding <= layout.innerHeight) =>
        placed.y + layout.height <= layout.innerHeight

\* C21 witness: the placement at the anchor's top overflowed the bottom edge
\* and the popover was moved up to end padding above it, without the clamp.
C21_Witness ==
    /\ placed # NoObject
    /\ OverflowsBottom(layout)
    /\ placed.y = layout.innerHeight - layout.height - padding
    /\ placed.y > padding
    /\ placed.y < layout.top

(***************************************************************************)
(* Further claims on rendering (specifications SpecRender, SpecMarkdown)   *)
(***************************************************************************)
\* number of places where lit occurs in s
Occurrences(s, lit) == Cardinality({i \in 1..Len(s) : StartsAt(s, i, lit)})

\* a line that starts with `* ` followed by text
IsBulletLine(line) == StartsAt(line, 1, <<"*"," ">>) /\ Len(line) > 2

\* a line that starts with digits, `. ` and text
IsNumberedLine(line) ==
    LET d == DigitRun(line, 1) IN
    d >= 1 /\ StartsAt(line, d + 1, <<"."," ">>) /\ Len(line) > d + 2

\* number of maximal runs of consecutive bullet lines
BulletRuns(lines) ==
    Cardinality({n \in DOMAIN lines :
                    /\ IsBulletLine(lines[n])
                    /\ (n = 1 \/ ~IsBulletLine(lines[n - 1]))})

\* C22: every line that starts with `* ` followed by text becomes a list item,
\* whatever the rest of the line holds, and every maximal run of such lines is
\* wrapped in exactly one unordered list: the output holds one item per bullet
\* line (and per numbered line) and one list per run.
C22_BulletLists ==
    pc = "rendered" =>
        LET lines == Lines(content)
            bullets == Cardinality({n \in DOMAIN lines : IsBulletLine(lines[n])})
            numbered == Cardinality({n \in DOMAIN lines : IsNumberedLine(lines[n])})
        IN  /\ Occurrences(bodyHtml, Open_li) = bullets + numbered
            /\ Occurrences(bodyHtml, Open_ul) = BulletRuns(lines)
            /\ Occurrences(bodyHtml, Close_ul) = BulletRuns(lines)

\* the strong and em tags of s from position i on, in order
RECURSIVE EmphasisTags(_, _)
EmphasisTags(s, i) ==
    LET P == {p \in i..Len(s) :
                \/ StartsAt(s, p, Open_strong) \/ StartsAt(s, p, Close_strong)
                \/ StartsAt(s, p, Open_em) \/ StartsAt(s, p, Close_em)}
    IN  IF P = {} THEN <<>>
        ELSE LET p == MinOf(P)
                 tag == IF StartsAt(s, p, Open_strong) THEN "strong"
                        ELSE IF StartsAt(s, p, Close_strong) THEN "/strong"
                        ELSE IF StartsAt(s, p, Open_em) THEN "em"
                        ELSE "/em"
             IN  <<tag>> \o EmphasisTags(s, p + 1)

\* every closing tag closes the element opened last, and none stays open
RECURSIVE WellNested(_, _)
WellNested(tags, open) ==
    IF tags = <<>> THEN open = <<>>
    ELSE LET t == Head(tags) IN
         IF t \in {"strong", "em"}
         THEN WellNested(Tail(tags), <<t>> \o open)
         ELSE /\ open # <<>>
              /\ Head(open) = (IF t = "/strong" THEN "strong" ELSE "em")
              /\ WellNested(Tail(tags), Tail(open))

\* C23: for every input the emphasis elements of the output are properly
\* nested: no em opened outside a strong closes inside it, or the reverse.
C23_ProperNesting ==
    pc = "rendered" => WellNested(EmphasisTags(bodyHtml, 1), <<>>)

\* the body row of a table text, between its outer pipes
RowOf(text) == SubSeq(text, Len(TableTop) + 1, Len(text) - 1)

\* the table in which the cell written at position i of the row is the i-th
\* cell of the output row, trimmed
TableByPosition(row) ==
    LET cells == Split(row, <<"|">>) IN
    TableHead \o Open_th \o <<"h">> \o Close_th \o TableMid \o Open_tr
        \o Join([n \in DOMAIN cells |-> Open_td \o Trim(cells[n]) \o Close_td], <<>>)
        \o Close_tr \o TableEnd

\* C24: in a recognized table the cell written at position i of a body row is
\* rendered as the i-th cell of the output row, trimmed, and the row is neither
\* padded nor truncated to the header's length.
C24_CellsByPosition ==
    (pc = "rendered" /\ content \in TableTexts /\ RowOf(content) # <<>>) =>
        bodyHtml = TableByPosition(RowOf(content))

\* position j of s lies inside a paragraph element
InsideParagraph(s, j) ==
    \E i \in 1..(j - 1) :
        /\ StartsAt(s, i, Open_p)
        /\ FindFrom(s, i, Close_p) >= j

\* a heading, list, list item or table opens inside a paragraph element
BlockInParagraph(s) ==
    \E j \in 1..Len(s) :
        /\ \/ StartsAt(s, j, PrefixH) \/ StartsAt(s, j, PrefixUl)
           \/ StartsAt(s, j, PrefixLi) \/ StartsAt(s, j, PrefixTable)
        /\ InsideParagraph(s, j)

\* a line of text begins outside every element
UnwrappedText(s) ==
    \E j \in 1..Len(s) :
        /\ j = 1 \/ s[j - 1] = NL
        /\ s[j] \notin {"<", NL}
        /\ ~InsideParagraph(s, j)

\* C27: for every input, no heading, list or table ends up inside a paragraph
\* and no text line ends up outside every element.
C27_BlocksApart ==
    pc = "rendered" => (~BlockInParagraph(bodyHtml) /\ ~UnwrappedText(bodyHtml))

(***************************************************************************)
(* Further claims on the tooltip (specification Spec)                      *)
(***************************************************************************)
\* C25: pinned implies shown.  In every reachable state in which the tooltip
\* carries class pinned it also carries class visible.
C25_PinnedImpliesShown ==
    pinned => visible

\* C26: whenever the popover is shown, currentSourceId and currentSectionKey
\* name a source of a displayed section, and the popover shows the page, title
\* and text of that source.
C26_TargetMatchesDisplay ==
    visible =>
        \E k \in DOMAIN sectionData :
            /\ currentSectionKey = KeyText[k]
            /\ currentSourceId \in DOMAIN OwnSources(k)
            /\ shown = SourceDisplay(OwnSources(k)[currentSourceId])

====
